---- MODULE Spec2Model ----
(***************************************************************************)
(* BlockVote blockchain engine: the block store (a key-value database with *)
(* "block-"+hash keys and the "LastHash" key), the in-memory tip pointer   *)
(* BlockChain.LastHash, block admission (Put), initialisation (Init),      *)
(* resume (ResumeFromDB), the chain iterator and fork reconciliation       *)
(* (CheckoutFork), the snapshot (Encode, ResumeFromEncodedData), the       *)
(* queries (TxnStatus, FindTransaction, FindUnspentTransactions,           *)
(* FindSpendableOutputs, SignTransaction, VerifyTransaction), and the      *)
(* voter-side client of evlib (Start, Vote, Stop).                         *)
(*                                                                         *)
(* Byte strings ([]byte) are sequences of naturals; the nil / empty byte   *)
(* string is << >>.  A caller thread is idle, has a call pending           *)
(* ("call"), is inside Put between two of its statements, or has a         *)
(* finished call whose result it still holds ("done").                     *)
(***************************************************************************)
EXTENDS Integers, Sequences, FiniteSets, TLC

VARIABLES
    DB,        \* util.Database: key -> value
    LastHash,  \* BlockChain.LastHash
    pc,        \* per thread: position of its current call
    arg,       \* per thread: the call and its arguments
    ret,       \* per thread: the value the finished call returned
    seen,      \* per thread: bc.LastHash as read by Put at line 155
    iters,     \* per thread: the ChainIterator of the walk its call is in
    nexts,     \* per thread: the calls of Next on its iterator since it was
               \* created or reset
    hist,      \* per thread: what its call would have returned had it run
               \* alone in one of the states passed since it started
    peerDB,        \* the util.Database of a second BlockChain (a new miner)
    peerLastHash,  \* the LastHash of the second BlockChain
    ev,        \* evlib: the fields of the EV instance
    voterInfo, \* evlib: the package variable voterInfo
    evpc,      \* evlib: position of the API caller and of Start's goroutine
    created    \* evlib: the voters createVoterWallet has run for, in order

chainVars == <<DB, LastHash, pc, arg, ret, seen>>
walkVars == <<iters, nexts, hist>>
peerVars == <<peerDB, peerLastHash>>
evVars == <<ev, voterInfo, evpc, created>>

\* what a call on one BlockChain leaves alone
otherVars == <<walkVars, peerVars, evVars>>

vars == <<DB, LastHash, pc, arg, ret, seen, iters, nexts, hist, peerDB, peerLastHash,
          ev, voterInfo, evpc, created>>

----------------------------------------------------------------------------
(* Bounds of the model *)

\* number of distinct hash values (the genesis hash is one of them)
MaxHash == 3
\* hash values of the fork-reconciliation specification
MaxForkHash == 5
\* hash values of the concurrent specification
MaxConcHash == 3
\* hash values of the transaction-query specification
MaxQueryHash == 4
\* hash values of the iterator specification
MaxIterHash == 4
\* hash values of the snapshot specification
MaxSnapHash == 4
\* hash values of the transaction-layer specification
MaxTxnHash == 3
\* Vote calls on the EV instance
MaxVotes == 3

Threads == {1, 2}
\* the callers of the specification of a query that races with Puts
RaceThreads == {1, 2, 3}
Callers == Threads \cup RaceThreads
MainThread == CHOOSE t \in Threads : \A u \in Threads : t <= u

Nil == << >>
HashesUpTo(n) == {<<i>> : i \in 1..n}
Nonces == {0, 1}
MinerIDs == {"", "M1"}
BlockNums == {0, 1}

----------------------------------------------------------------------------
(* Blocks, transactions and the block codec *)

Txn(i) == [ID |-> <<i>>]

\* the transactions carried by the block mined under hash h: one for an odd
\* hash value, two for an even one
TxnsFor(h) ==
    IF Len(h) = 0 THEN << >>
    ELSE IF h[1] % 2 = 0 THEN <<Txn(2 * h[1]), Txn(2 * h[1] + 1)>>
    ELSE <<Txn(2 * h[1])>>

Block(prev, num, nonce, txns, miner, hash) ==
    [PrevHash |-> prev, BlockNum |-> num, Nonce |-> nonce, Txns |-> txns,
     MinerID |-> miner, Hash |-> hash]

\* Block.Encode: the gob encoding, field by field in declaration order
Encode(b) == <<b.PrevHash, b.BlockNum, b.Nonce, b.Txns, b.MinerID, b.Hash>>

\* DecodeToBlock
DecodeToBlock(data) ==
    [PrevHash |-> data[1], BlockNum |-> data[2], Nonce |-> data[3],
     Txns |-> data[4], MinerID |-> data[5], Hash |-> data[6]]

----------------------------------------------------------------------------
(* Proof of work *)

\* difficulty: a digest meets the target when its value is at most Target
Target == 2

HashCode(h) == IF Len(h) = 0 THEN 0 ELSE h[1]
MinerCode(m) == IF m = "M1" THEN 1 ELSE 0

\* the digest over (prev_hash, txns, block_num, nonce, miner_id): one of the
\* MaxHash hash values
Digest(b) ==
    <<((HashCode(b.PrevHash) + Len(b.Txns) + b.BlockNum + b.Nonce
        + MinerCode(b.MinerID)) % MaxHash) + 1>>

\* ProofOfWork.Validate: the digest of the block's fields with its stored
\* nonce meets the target and equals block.Hash
Validate(b) == Digest(b)[1] <= Target /\ Digest(b) = b.Hash

\* ProofOfWork.Run: the first nonce whose digest meets the target; sets
\* Nonce and Hash
Run(b) ==
    LET ok == {k \in 0..(MaxHash - 1) : Digest([b EXCEPT !.Nonce = k])[1] <= Target}
        k0 == CHOOSE k \in ok : \A j \in ok : k <= j
        m  == [b EXCEPT !.Nonce = k0]
    IN  [m EXCEPT !.Hash = Digest(m)]

\* Block.Genesis
Genesis == Run(Block(Nil, 0, 0, << >>, "Coord", Nil))

----------------------------------------------------------------------------
(* The key-value store *)

BlockKeyPrefix == "block-"
LastHashKey == [prefix |-> "LastHash", hash |-> Nil]

\* DBKeyForBlock: the prefix joined with the hash
DBKeyForBlock(blockHash) == [prefix |-> BlockKeyPrefix, hash |-> blockHash]

KeyExist(db, key) == key \in DOMAIN db

\* Database.Put / PutMulti: writes (or overwrites) the keys
DBPut(db, key, value) ==
    [k \in DOMAIN db \cup {key} |-> IF k = key THEN value ELSE db[k]]

DBPutMulti(db, keys, values) ==
    [k \in DOMAIN db \cup {keys[i] : i \in DOMAIN keys} |->
        IF \E i \in DOMAIN keys : keys[i] = k
        THEN values[CHOOSE i \in DOMAIN keys :
                       keys[i] = k /\ \A j \in DOMAIN keys : keys[j] = k => j <= i]
        ELSE db[k]]

EmptyDB == [k \in {} |-> Nil]

----------------------------------------------------------------------------
(* BlockChain *)

\* BlockChain.Exist
Exist(db, hash) == KeyExist(db, DBKeyForBlock(hash))

\* BlockChain.Get (the caller has checked that the key exists)
Get(db, hash) == DecodeToBlock(db[DBKeyForBlock(hash)])

\* mutant: the sanity check lets any BlockNum through
PutSaneAnyBlockNum(block) ==
    ~(Len(block.PrevHash) = 0 \/ Len(block.Hash) = 0 \/ block.MinerID = "")

\* Put, line 122: the sanity check passes
PutSane(block) ==
    ~(Len(block.PrevHash) = 0 \/ block.BlockNum = 0 \/ Len(block.Hash) = 0
      \/ block.MinerID = "")

\* mutant: the validation runs for owned blocks too
PutValidIgnoringOwned(block, owned) == Validate(block)

\* Put, lines 136-145: the block passes validation
PutValid(block, owned) == owned \/ Validate(block)

\* mutant: the tip moves onto every admitted block
PutTipAlways(block, last) == block.Hash

\* Put, lines 155-157: the tip after the block is saved, given the value of
\* bc.LastHash the comparison read
PutTip(block, last) == IF block.PrevHash = last THEN block.Hash ELSE last

\* mutant: the write is lost
PutSaveNothing(db, block) == db

\* Put, line 148
PutSave(db, block) == DBPut(db, DBKeyForBlock(block.Hash), Encode(block))

\* mutant: the parent is not looked up
PutCheckParentSanityOnly(db, block) == ~PutSane(block)

\* Put, lines 122-129: rejected by the sanity check or for an unknown parent
PutCheckParentRejects(db, block) == ~PutSane(block) \/ ~Exist(db, block.PrevHash)

\* Put, lines 130-145: rejected as a duplicate or by validation
PutCheckBlockRejects(db, block, owned) ==
    Exist(db, block.Hash) \/ ~PutValid(block, owned)

NoArg == [op |-> "none"]
NoRet == [op |-> "none"]
NoIter == [LastHash |-> Nil, CurrentHash |-> Nil, Index |-> -1]

\* evlib NewEV: the zero EV (nil clients, empty miner list)
NewEV ==
    [coordClient |-> FALSE, minerClient |-> FALSE, MinerAddrList |-> << >>,
     minerIpPort |-> "", VoterTxnMap |-> {}]

\* a caller starts a call
Invoke(t, a) ==
    /\ pc[t] = "idle"
    /\ pc' = [pc EXCEPT ![t] = "call"]
    /\ arg' = [arg EXCEPT ![t] = a]
    /\ UNCHANGED <<DB, LastHash, ret, seen>>

\* the caller takes the result; the thread is idle again
Return(t) ==
    /\ pc[t] = "done"
    /\ pc' = [pc EXCEPT ![t] = "idle"]
    /\ arg' = [arg EXCEPT ![t] = NoArg]
    /\ ret' = [ret EXCEPT ![t] = NoRet]
    /\ UNCHANGED <<DB, LastHash, seen>>

Finish(t, r) ==
    /\ pc' = [pc EXCEPT ![t] = "done"]
    /\ ret' = [ret EXCEPT ![t] = r]
    /\ seen' = [seen EXCEPT ![t] = Nil]
    /\ UNCHANGED arg

\* BlockChain.Init
InitChain(t) ==
    /\ pc[t] = "call" /\ arg[t].op = "Init"
    /\ IF KeyExist(DB, LastHashKey)
       THEN /\ UNCHANGED <<DB, LastHash>>
            /\ Finish(t, [op |-> "Init", err |-> "blockchain has already been initialized"])
       ELSE LET genesis == Genesis IN
            /\ DB' = DBPutMulti(DB, <<DBKeyForBlock(genesis.Hash), LastHashKey>>,
                                <<Encode(genesis), genesis.Hash>>)
            /\ LastHash' = genesis.Hash
            /\ Finish(t, [op |-> "Init", err |-> "nil"])

\* BlockChain.ResumeFromDB
ResumeFromDB(t) ==
    /\ pc[t] = "call" /\ arg[t].op = "ResumeFromDB"
    /\ IF ~KeyExist(DB, LastHashKey)
       THEN /\ UNCHANGED <<DB, LastHash>>
            /\ Finish(t, [op |-> "ResumeFromDB", err |-> "key not found"])
       ELSE /\ LastHash' = DB[LastHashKey]
            /\ UNCHANGED DB
            /\ Finish(t, [op |-> "ResumeFromDB", err |-> "nil"])

\* mutant: the block is saved before it is validated
PutSavedBeforeValidation(t) ==
    /\ pc[t] = "call" /\ arg[t].op = "Put"
    /\ LET block == arg[t].block
           owned == arg[t].owned
       IN  IF PutCheckParentRejects(DB, block) \/ Exist(DB, block.Hash)
           THEN /\ UNCHANGED <<DB, LastHash>>
                /\ Finish(t, [op |-> "Put", success |-> FALSE])
           ELSE IF ~PutValid(block, owned)
           THEN /\ DB' = PutSave(DB, block)
                /\ UNCHANGED LastHash
                /\ Finish(t, [op |-> "Put", success |-> FALSE])
           ELSE /\ DB' = PutSave(DB, block)
                /\ LastHash' = PutTip(block, LastHash)
                /\ Finish(t, [op |-> "Put", success |-> TRUE])

\* BlockChain.Put, run from its first to its last statement without
\* another thread in between
Put(t) ==
    /\ pc[t] = "call" /\ arg[t].op = "Put"
    /\ LET block == arg[t].block
           owned == arg[t].owned
       IN  IF PutCheckParentRejects(DB, block) \/ PutCheckBlockRejects(DB, block, owned)
           THEN /\ UNCHANGED <<DB, LastHash>>
                /\ Finish(t, [op |-> "Put", success |-> FALSE])
           ELSE /\ DB' = PutSave(DB, block)
                /\ LastHash' = PutTip(block, LastHash)
                /\ Finish(t, [op |-> "Put", success |-> TRUE])

----------------------------------------------------------------------------
(* BlockChain.Put statement by statement, as concurrent callers run it:    *)
(* Put takes no lock, so another thread may run between any two of its     *)
(* accesses to the database and to bc.LastHash                             *)

\* lines 122-129: the sanity check, then Exist(block.PrevHash)
PutCheckParent(t) ==
    /\ pc[t] = "call" /\ arg[t].op = "Put"
    /\ UNCHANGED <<DB, LastHash>>
    /\ IF PutCheckParentRejects(DB, arg[t].block)
       THEN Finish(t, [op |-> "Put", success |-> FALSE])
       ELSE /\ pc' = [pc EXCEPT ![t] = "line130"]
            /\ UNCHANGED <<arg, ret, seen>>

\* lines 130-145: Exist(block.Hash), then the validation
PutCheckBlock(t) ==
    /\ pc[t] = "line130"
    /\ UNCHANGED <<DB, LastHash>>
    /\ IF PutCheckBlockRejects(DB, arg[t].block, arg[t].owned)
       THEN Finish(t, [op |-> "Put", success |-> FALSE])
       ELSE /\ pc' = [pc EXCEPT ![t] = "line148"]
            /\ UNCHANGED <<arg, ret, seen>>

\* line 148: bc.DB.Put
PutWrite(t) ==
    /\ pc[t] = "line148"
    /\ DB' = PutSave(DB, arg[t].block)
    /\ pc' = [pc EXCEPT ![t] = "line155"]
    /\ UNCHANGED <<LastHash, arg, ret, seen>>

\* line 155: the read of bc.LastHash for the comparison
PutReadLast(t) ==
    /\ pc[t] = "line155"
    /\ seen' = [seen EXCEPT ![t] = LastHash]
    /\ pc' = [pc EXCEPT ![t] = "line156"]
    /\ UNCHANGED <<DB, LastHash, arg, ret>>

\* lines 155-158: the comparison with the value read, the assignment of
\* bc.LastHash when they are equal, and the return
PutWriteLast(t) ==
    /\ pc[t] = "line156"
    /\ IF arg[t].block.PrevHash = seen[t]
       THEN LastHash' = PutTip(arg[t].block, seen[t])
       ELSE UNCHANGED LastHash
    /\ UNCHANGED DB
    /\ Finish(t, [op |-> "Put", success |-> TRUE])

----------------------------------------------------------------------------
(* ChainIterator and fork reconciliation *)

\* BlockChain.NewIterator
NewIterator(hash) == [LastHash |-> hash, CurrentHash |-> hash, Index |-> -1]

\* mutant: Next leaves Index as it was
IterNextKeepsIndex(db, iter) ==
    LET block == Get(db, iter.CurrentHash) IN
    [block |-> block,
     end   |-> block.BlockNum = 0,
     iter  |-> [iter EXCEPT !.CurrentHash = block.PrevHash]]

\* ChainIterator.Next: the block at the cursor, whether it is genesis, and
\* the iterator advanced to its PrevHash
IterNext(db, iter) ==
    LET block == Get(db, iter.CurrentHash) IN
    [block |-> block,
     end   |-> block.BlockNum = 0,
     iter  |-> [iter EXCEPT !.CurrentHash = block.PrevHash, !.Index = iter.Index + 1]]

\* CheckoutFork, lines 173-178: the loop that prepends the hash of every
\* block the iterator returns before the one that ends the walk
RECURSIVE CollectHashes(_, _, _)
CollectHashes(db, iter, acc) ==
    LET r == IterNext(db, iter) IN
    IF r.end THEN acc ELSE CollectHashes(db, r.iter, <<r.block.Hash>> \o acc)

Min(a, b) == IF a < b THEN a ELSE b

\* CheckoutFork, lines 181-186: the first index (from 0) at which the two
\* lists differ, or the length of the shorter
RECURSIVE FirstDifferent(_, _, _)
FirstDifferent(new, old, i) ==
    IF i < Min(Len(new), Len(old)) /\ new[i + 1] = old[i + 1]
    THEN FirstDifferent(new, old, i + 1)
    ELSE i

\* CheckoutFork, lines 189-200: the transactions of the blocks hashes[i:]
RECURSIVE CollectTxns(_, _, _)
CollectTxns(db, hashes, i) ==
    IF i >= Len(hashes) THEN << >>
    ELSE Get(db, hashes[i + 1]).Txns \o CollectTxns(db, hashes, i + 1)

\* mutant: the two sides are exchanged
CheckoutForkSwapped(db, last, lastHashNew) ==
    IF lastHashNew = last
    THEN [newTxns |-> << >>, oldTxns |-> << >>]
    ELSE LET blockHashesNew == CollectHashes(db, NewIterator(lastHashNew), << >>)
             blockHashesOld == CollectHashes(db, NewIterator(last), << >>)
             i == FirstDifferent(blockHashesNew, blockHashesOld, 0)
         IN  [newTxns |-> CollectTxns(db, blockHashesOld, i),
              oldTxns |-> CollectTxns(db, blockHashesNew, i)]

\* CheckoutFork: the pair it returns
CheckoutForkResult(db, last, lastHashNew) ==
    IF lastHashNew = last
    THEN [newTxns |-> << >>, oldTxns |-> << >>]
    ELSE LET blockHashesNew == CollectHashes(db, NewIterator(lastHashNew), << >>)
             blockHashesOld == CollectHashes(db, NewIterator(last), << >>)
             i == FirstDifferent(blockHashesNew, blockHashesOld, 0)
         IN  [newTxns |-> CollectTxns(db, blockHashesNew, i),
              oldTxns |-> CollectTxns(db, blockHashesOld, i)]

\* mutant: the call checks the fork out
CheckoutForkSwitchesTip(last, lastHashNew) == lastHashNew

\* CheckoutFork: the tip it leaves
CheckoutForkTip(last, lastHashNew) == last

\* BlockChain.CheckoutFork; Get of a hash that is not stored ends the
\* process (log.Fatal)
CheckoutFork(t) ==
    /\ pc[t] = "call" /\ arg[t].op = "CheckoutFork"
    /\ UNCHANGED DB
    /\ IF arg[t].hash # LastHash /\ (~Exist(DB, arg[t].hash) \/ ~Exist(DB, LastHash))
       THEN /\ pc' = [pc EXCEPT ![t] = "fatal"]
            /\ UNCHANGED <<LastHash, arg, ret, seen>>
       ELSE /\ LastHash' = CheckoutForkTip(LastHash, arg[t].hash)
            /\ Finish(t, [op |-> "CheckoutFork",
                          txns |-> CheckoutForkResult(DB, LastHash, arg[t].hash)])

----------------------------------------------------------------------------
(* Specification of block admission: one caller, every Put atomic *)

PutBlocks ==
    {Block(p, num, k, TxnsFor(h), m, h) :
        p \in {Nil} \cup HashesUpTo(MaxHash), num \in BlockNums, k \in Nonces,
        m \in MinerIDs, h \in {Nil} \cup HashesUpTo(MaxHash)}

PutCalls == {[op |-> "Put", block |-> b, owned |-> o] : b \in PutBlocks, o \in BOOLEAN}

Init ==
    /\ DB = EmptyDB
    /\ LastHash = Nil
    /\ pc = [t \in Callers |-> "idle"]
    /\ arg = [t \in Callers |-> NoArg]
    /\ ret = [t \in Callers |-> NoRet]
    /\ seen = [t \in Callers |-> Nil]
    /\ iters = [t \in Callers |-> NoIter]
    /\ nexts = [t \in Callers |-> 0]
    /\ hist = [t \in Callers |-> {}]
    /\ peerDB = EmptyDB
    /\ peerLastHash = Nil
    /\ ev = NewEV
    /\ voterInfo = << >>
    /\ evpc = [api |-> "new", bg |-> "none", call |-> NoArg]
    /\ created = << >>

InvokeInit == Invoke(MainThread, [op |-> "Init"]) /\ UNCHANGED otherVars
InvokeResume == Invoke(MainThread, [op |-> "ResumeFromDB"]) /\ UNCHANGED otherVars
InvokePut == (\E a \in PutCalls : Invoke(MainThread, a)) /\ UNCHANGED otherVars
DoInit == InitChain(MainThread) /\ UNCHANGED otherVars
DoResume == ResumeFromDB(MainThread) /\ UNCHANGED otherVars
DoPut == Put(MainThread) /\ UNCHANGED otherVars
DoReturn == Return(MainThread) /\ UNCHANGED otherVars

Next ==
    \/ InvokeInit
    \/ InvokeResume
    \/ InvokePut
    \/ DoInit
    \/ DoResume
    \/ DoPut
    \/ DoReturn

Spec == Init /\ [][Next]_vars

----------------------------------------------------------------------------
(* Specification of fork reconciliation: one caller, well-formed blocks    *)
(* that this node mined, chains of up to MaxForkHash blocks                *)

ForkHashes == HashesUpTo(MaxForkHash)

ForkBlocks == {Block(p, 1, 0, TxnsFor(h), "M1", h) : p \in ForkHashes, h \in ForkHashes}

ForkPutCalls == {[op |-> "Put", block |-> b, owned |-> TRUE] : b \in ForkBlocks}

CheckoutCalls == {[op |-> "CheckoutFork", hash |-> h] : h \in ForkHashes}

ForkInvokeInit == Invoke(MainThread, [op |-> "Init"]) /\ UNCHANGED otherVars
ForkInvokePut == (\E a \in ForkPutCalls : Invoke(MainThread, a)) /\ UNCHANGED otherVars
ForkInvokeCheckout ==
    (\E a \in CheckoutCalls : Invoke(MainThread, a)) /\ UNCHANGED otherVars
ForkDoInit == InitChain(MainThread) /\ UNCHANGED otherVars
ForkDoPut == Put(MainThread) /\ UNCHANGED otherVars
ForkDoCheckout == CheckoutFork(MainThread) /\ UNCHANGED otherVars
ForkDoReturn == Return(MainThread) /\ UNCHANGED otherVars

NextFork ==
    \/ ForkInvokeInit
    \/ ForkInvokePut
    \/ ForkInvokeCheckout
    \/ ForkDoInit
    \/ ForkDoPut
    \/ ForkDoCheckout
    \/ ForkDoReturn

SpecFork == Init /\ [][NextFork]_vars

----------------------------------------------------------------------------
(* Specification of concurrent admission: the callers of Threads run Put   *)
(* statement by statement, with well-formed blocks this node mined         *)

ConcHashes == HashesUpTo(MaxConcHash)

ConcBlocks == {Block(p, 1, 0, TxnsFor(h), "M1", h) : p \in ConcHashes, h \in ConcHashes}

ConcPutCalls == {[op |-> "Put", block |-> b, owned |-> TRUE] : b \in ConcBlocks}

ConcInvokeInit == (\E t \in Threads : Invoke(t, [op |-> "Init"])) /\ UNCHANGED otherVars
ConcInvokePut ==
    (\E t \in Threads : \E a \in ConcPutCalls : Invoke(t, a)) /\ UNCHANGED otherVars
ConcDoInit == (\E t \in Threads : InitChain(t)) /\ UNCHANGED otherVars
ConcPutCheckParent == (\E t \in Threads : PutCheckParent(t)) /\ UNCHANGED otherVars
ConcPutCheckBlock == (\E t \in Threads : PutCheckBlock(t)) /\ UNCHANGED otherVars
ConcPutWrite == (\E t \in Threads : PutWrite(t)) /\ UNCHANGED otherVars
ConcPutReadLast == (\E t \in Threads : PutReadLast(t)) /\ UNCHANGED otherVars
ConcPutWriteLast == (\E t \in Threads : PutWriteLast(t)) /\ UNCHANGED otherVars
ConcDoReturn == (\E t \in Threads : Return(t)) /\ UNCHANGED otherVars

NextConc ==
    \/ ConcInvokeInit
    \/ ConcInvokePut
    \/ ConcDoInit
    \/ ConcPutCheckParent
    \/ ConcPutCheckBlock
    \/ ConcPutWrite
    \/ ConcPutReadLast
    \/ ConcPutWriteLast
    \/ ConcDoReturn

SpecConc == Init /\ [][NextConc]_vars

----------------------------------------------------------------------------
(* Properties *)

Initialized == KeyExist(DB, LastHashKey)

\* the keys of the stored blocks
BlockKeys(db) == {k \in DOMAIN db : k.prefix = BlockKeyPrefix}

\* the blocks from genesis to the block stored under h, following PrevHash
RECURSIVE ChainOf(_, _)
ChainOf(db, h) ==
    LET b == DecodeToBlock(db[DBKeyForBlock(h)]) IN
    IF Len(b.PrevHash) = 0 THEN <<b>> ELSE Append(ChainOf(db, b.PrevHash), b)

ChainHashes(db, h) == {ChainOf(db, h)[i].Hash : i \in 1..Len(ChainOf(db, h))}

\* the transactions of the blocks chain[from..], in chain order
RECURSIVE TxnsFrom(_, _)
TxnsFrom(chain, from) ==
    IF from > Len(chain) THEN << >>
    ELSE chain[from].Txns \o TxnsFrom(chain, from + 1)

\* the length of the longest common prefix of two sequences
CommonPrefix(a, b) ==
    CHOOSE n \in 0..Min(Len(a), Len(b)) :
        /\ \A j \in 1..n : a[j] = b[j]
        /\ n < Min(Len(a), Len(b)) => a[n + 1] # b[n + 1]

\* the step in which the main thread's pending call of op runs to its return
Handled(op) ==
    /\ pc[MainThread] = "call" /\ arg[MainThread].op = op
    /\ pc'[MainThread] = "done"

\* the main thread holds the result of a finished call of op
Returned(op) == pc[MainThread] = "done" /\ arg[MainThread].op = op

\* C1: a successful Put of b in a state with tip t leaves LastHash = b.Hash
\* when b.PrevHash = t, and otherwise leaves LastHash = t with b stored off
\* the current chain (on a side branch).
C1_TipUpdate ==
    [][Handled("Put") /\ ret'[MainThread].success =>
        LET b == arg[MainThread].block IN
        IF b.PrevHash = LastHash
        THEN LastHash' = b.Hash
        ELSE /\ LastHash' = LastHash
             /\ KeyExist(DB', DBKeyForBlock(b.Hash))
             /\ DecodeToBlock(DB'[DBKeyForBlock(b.Hash)]) = b
             /\ b.Hash \notin ChainHashes(DB', LastHash')]_vars

\* C1 witness: after B1, B2, B3 in a line, a block B2' with PrevHash = B1 has
\* been admitted and the tip is still B3.
C1_Witness ==
    /\ Returned("Put") /\ ret[MainThread].success
    /\ Initialized
    /\ LET chain == ChainOf(DB, LastHash)
           b == arg[MainThread].block
       IN  /\ Len(chain) = 4
           /\ b.PrevHash = chain[2].Hash
           /\ b.Hash \notin ChainHashes(DB, LastHash)
           /\ Exist(DB, b.Hash)

\* C2: a Put that returns false leaves the database and LastHash as they were.
C2_RejectedPutChangesNothing ==
    [][Handled("Put") /\ ~ret'[MainThread].success =>
        DB' = DB /\ LastHash' = LastHash]_vars

\* C2 witness: a Put was rejected only because the block is not owned and
\* its proof of work does not validate.
C2_Witness ==
    /\ Returned("Put") /\ ~ret[MainThread].success
    /\ LET b == arg[MainThread].block IN
       /\ PutSane(b)
       /\ Exist(DB, b.PrevHash)
       /\ ~Exist(DB, b.Hash)
       /\ ~arg[MainThread].owned
       /\ ~Validate(b)

\* the admission condition of claim C3
C3_Admissible(db, b, owned) ==
    /\ b.PrevHash # Nil /\ b.Hash # Nil /\ b.MinerID # ""
    /\ b.BlockNum # 0
    /\ DBKeyForBlock(b.PrevHash) \in DOMAIN db
    /\ DBKeyForBlock(b.Hash) \notin DOMAIN db
    /\ (owned \/ (Digest(b) = b.Hash /\ Digest(b)[1] <= Target))

\* C3: Put(b, owned) returns true exactly when b has no missing field, its
\* parent is stored, its hash is not, and it is owned or its proof of work
\* validates; when it returns true b is stored under b.Hash.
C3_PutReturnsTrueIff ==
    [][Handled("Put") =>
        LET b == arg[MainThread].block
            owned == arg[MainThread].owned
        IN  /\ ret'[MainThread].success <=> C3_Admissible(DB, b, owned)
            /\ ret'[MainThread].success =>
                   /\ KeyExist(DB', DBKeyForBlock(b.Hash))
                   /\ DecodeToBlock(DB'[DBKeyForBlock(b.Hash)]) = b]_vars

\* C3 witness: an owned block whose proof of work is invalid was admitted.
C3_Witness ==
    /\ Returned("Put") /\ ret[MainThread].success
    /\ arg[MainThread].owned
    /\ ~Validate(arg[MainThread].block)
    /\ Get(DB, arg[MainThread].block.Hash) = arg[MainThread].block

\* a non-owned block with a valid proof of work was admitted
C3_ValidAdmitted ==
    /\ Returned("Put") /\ ret[MainThread].success
    /\ ~arg[MainThread].owned

\* C4: every stored block is genesis (BlockNum = 0, empty PrevHash) or has
\* its PrevHash stored.
C4_PrefixClosed ==
    \A k \in BlockKeys(DB) :
        LET b == DecodeToBlock(DB[k]) IN
        \/ b.BlockNum = 0 /\ b.PrevHash = Nil
        \/ DBKeyForBlock(b.PrevHash) \in DOMAIN DB

\* C4 witness: genesis and two more blocks are stored, one of them not on
\* the current chain, while a thread is between two statements of Put.
C4_Witness ==
    /\ Initialized
    /\ Cardinality(BlockKeys(DB)) >= 3
    /\ \E k \in BlockKeys(DB) : k.hash \notin ChainHashes(DB, LastHash)
    /\ \E t \in Threads : pc[t] \in {"line130", "line148", "line155", "line156"}

\* C5: once Init has succeeded, LastHash is the hash of a stored block.
C5_TipStored ==
    Initialized =>
        /\ DBKeyForBlock(LastHash) \in DOMAIN DB
        /\ DecodeToBlock(DB[DBKeyForBlock(LastHash)]).Hash = LastHash

\* C5 witness: a Put has written its block, which extends the tip, and has
\* not yet moved the tip onto it.
C5_Witness ==
    \E t \in Threads :
        /\ pc[t] \in {"line155", "line156"}
        /\ arg[t].block.PrevHash = LastHash
        /\ Exist(DB, arg[t].block.Hash)
        /\ Get(DB, arg[t].block.Hash) = arg[t].block

\* C6: the value under the "LastHash" key is the BlockChain's LastHash.
C6_LastHashKeyIsTip == Initialized => DB[LastHashKey] = LastHash

\* C7: every change of LastHash after Init moves it from a hash h to a
\* stored block whose PrevHash is h.
C7_TipMovesAlongOneChain ==
    [][Initialized /\ LastHash' # LastHash =>
        /\ KeyExist(DB', DBKeyForBlock(LastHash'))
        /\ DecodeToBlock(DB'[DBKeyForBlock(LastHash')]).PrevHash = LastHash]_vars

\* C8: a stored block is never removed and its bytes never change.
C8_AppendOnly ==
    [][\A k \in BlockKeys(DB) : k \in DOMAIN DB' /\ DB'[k] = DB[k]]_vars

\* the pair claim C9 states for CheckoutFork(newTip) at tip last
C9_Expected(db, last, newTip) ==
    LET cur == ChainOf(db, last)
        new == ChainOf(db, newTip)
        i == CommonPrefix(cur, new)
    IN  [newTxns |-> TxnsFrom(new, i + 1), oldTxns |-> TxnsFrom(cur, i + 1)]

\* C9: CheckoutFork(new_tip) returns as removed the transactions of the
\* current chain's blocks after the longest common prefix of the two
\* genesis-first chains, and as added those of the new chain's, both in
\* chain order; both are empty when new_tip is the tip, and one is empty
\* when one tip is an ancestor of the other.
C9_CheckoutForkDiff ==
    [][Handled("CheckoutFork") =>
        LET h == arg[MainThread].hash
            r == ret'[MainThread].txns
            cur == ChainOf(DB, LastHash)
            new == ChainOf(DB, h)
        IN  /\ r = C9_Expected(DB, LastHash, h)
            /\ h = LastHash => r.newTxns = << >> /\ r.oldTxns = << >>
            /\ h \in ChainHashes(DB, LastHash) =>
                   r.newTxns = << >> /\ r.oldTxns = TxnsFrom(cur, Len(new) + 1)
            /\ LastHash \in ChainHashes(DB, h) =>
                   r.oldTxns = << >> /\ r.newTxns = TxnsFrom(new, Len(cur) + 1)]_vars

\* C9 witness: CheckoutFork returned for two chains that share genesis and
\* one more block and then differ, the current one by two blocks.
C9_Witness ==
    /\ Returned("CheckoutFork")
    /\ LET cur == ChainOf(DB, LastHash)
           new == ChainOf(DB, arg[MainThread].hash)
       IN  /\ CommonPrefix(cur, new) = 2
           /\ Len(cur) = 4
           /\ Len(new) >= 3
           /\ ret[MainThread].txns.oldTxns = cur[3].Txns \o cur[4].Txns
           /\ ret[MainThread].txns.newTxns = new[3].Txns

GenesisKeys(db) == {k \in BlockKeys(db) : DecodeToBlock(db[k]).BlockNum = 0}

\* C12: once Init has run, exactly one stored block has BlockNum = 0 after
\* every step of Init, ResumeFromDB and Put: the first Init stores the genesis
\* block and sets LastHash to its hash, a later Init returns the
\* already-initialized error and changes neither the store nor LastHash, and
\* a Put of a block with BlockNum = 0 is rejected and stores nothing.
C12_OneGenesis ==
    [][/\ Initialized' => Cardinality(GenesisKeys(DB')) = 1
       /\ ~Initialized' => BlockKeys(DB') = {}
       /\ Handled("Init") /\ ~Initialized =>
              /\ ret'[MainThread].err = "nil"
              /\ BlockKeys(DB') = {DBKeyForBlock(Genesis.Hash)}
              /\ DecodeToBlock(DB'[DBKeyForBlock(Genesis.Hash)]) = Genesis
              /\ LastHash' = Genesis.Hash
       /\ Handled("Init") /\ Initialized =>
              /\ ret'[MainThread].err = "blockchain has already been initialized"
              /\ UNCHANGED <<DB, LastHash>>
       /\ Handled("Put") /\ arg[MainThread].block.BlockNum = 0 =>
              /\ ~ret'[MainThread].success
              /\ UNCHANGED <<DB, LastHash>>]_vars

\* a second Init has failed on a chain that holds genesis and another block
C12_Witness ==
    /\ Returned("Init")
    /\ ret[MainThread].err = "blockchain has already been initialized"
    /\ Cardinality(BlockKeys(DB)) >= 2
    /\ Cardinality(GenesisKeys(DB)) = 1
----------------------------------------------------------------------------
(* BlockChain.TxnStatus *)

\* mutant: the depth is counted from 1
TxnStatusIndexFromOne(iter) == iter.Index + 1

\* TxnStatus, line 223: res = iter.Index
TxnStatusIndex(iter) == iter.Index

\* TxnStatus, lines 221-226: the block holds a transaction with this ID
Contains(block, txid) == \E i \in 1..Len(block.Txns) : block.Txns[i].ID = txid

\* TxnStatus, lines 220-231: the loop; the block that ends the walk is not
\* searched
RECURSIVE TxnStatusWalk(_, _, _)
TxnStatusWalk(db, iter, txid) ==
    LET r == IterNext(db, iter) IN
    IF r.end THEN -1
    ELSE IF Contains(r.block, txid) THEN TxnStatusIndex(r.iter)
    ELSE TxnStatusWalk(db, r.iter, txid)

\* TxnStatus on the store db with bc.LastHash = last
TxnStatusResult(db, last, txid) == TxnStatusWalk(db, NewIterator(last), txid)

\* BlockChain.TxnStatus, run without another thread in between; the Get of
\* a hash that is not stored ends the process (log.Fatal)
TxnStatus(t) ==
    /\ pc[t] = "call" /\ arg[t].op = "TxnStatus"
    /\ UNCHANGED <<DB, LastHash>>
    /\ IF ~Exist(DB, LastHash)
       THEN /\ pc' = [pc EXCEPT ![t] = "fatal"]
            /\ UNCHANGED <<arg, ret, seen>>
       ELSE Finish(t, [op |-> "TxnStatus",
                       res |-> TxnStatusResult(DB, LastHash, arg[t].txid)])

----------------------------------------------------------------------------
(* Specification of the transaction query: one caller, well-formed blocks  *)
(* this node mined; a block carries one transaction of its own, alone or   *)
(* after a transaction that other blocks carry too                         *)

QueryHashes == HashesUpTo(MaxQueryHash)

\* the transaction lists a block of hash h may carry
QueryTxns(h) == {<<Txn(h[1])>>, <<Txn(0), Txn(h[1])>>}

QueryBlocks ==
    UNION {{Block(p, 1, 0, txns, "M1", h) : p \in QueryHashes, txns \in QueryTxns(h)} :
              h \in QueryHashes}

QueryPutCalls == {[op |-> "Put", block |-> b, owned |-> TRUE] : b \in QueryBlocks}

TxnStatusCalls == {[op |-> "TxnStatus", txid |-> <<i>>] : i \in 0..MaxQueryHash}

QueryInvokeInit == Invoke(MainThread, [op |-> "Init"]) /\ UNCHANGED otherVars
QueryInvokePut == (\E a \in QueryPutCalls : Invoke(MainThread, a)) /\ UNCHANGED otherVars
QueryInvokeTxnStatus ==
    (\E a \in TxnStatusCalls : Invoke(MainThread, a)) /\ UNCHANGED otherVars
QueryDoInit == InitChain(MainThread) /\ UNCHANGED otherVars
QueryDoPut == Put(MainThread) /\ UNCHANGED otherVars
QueryDoTxnStatus == TxnStatus(MainThread) /\ UNCHANGED otherVars
QueryDoReturn == Return(MainThread) /\ UNCHANGED otherVars

NextQuery ==
    \/ QueryInvokeInit
    \/ QueryInvokePut
    \/ QueryInvokeTxnStatus
    \/ QueryDoInit
    \/ QueryDoPut
    \/ QueryDoTxnStatus
    \/ QueryDoReturn

SpecQuery == Init /\ [][NextQuery]_vars

\* the depths (0 = tip block) of the blocks of the chain that hold txid
Depths(chain, txid) ==
    {k \in 0..(Len(chain) - 1) : Contains(chain[Len(chain) - k], txid)}

\* C11: TxnStatus(id) on the chain from the tip to genesis returns k >= 0
\* exactly when the block at depth k holds a transaction with that id and no
\* block at a smaller depth does, and -1 exactly when no block of the chain
\* holds it; in a line B1, B2, B3 of blocks with one transaction T1, T2, T3
\* each it returns 2, 1, 0 for T1, T2, T3.  The call changes nothing.
C11_TxnStatus ==
    [][Handled("TxnStatus") =>
          LET chain == ChainOf(DB, LastHash)
              L == Len(chain)
              id == arg[MainThread].txid
              res == ret'[MainThread].res
              D == Depths(chain, id)
          IN  /\ res \in -1..(L - 1)
              /\ \A k \in 0..(L - 1) :
                    res = k <=> (k \in D /\ \A j \in 0..(k - 1) : j \notin D)
              /\ res = -1 <=> D = {}
              /\ L = 1 => res = -1
              /\ (/\ L = 4
                  /\ \A i \in 2..4 : Len(chain[i].Txns) = 1
                  /\ \A i, j \in 2..4 : i # j => chain[i].Txns # chain[j].Txns)
                 => \A i \in 2..4 : id = chain[i].Txns[1].ID => res = 4 - i
              /\ UNCHANGED <<DB, LastHash>>]_vars

\* TxnStatus has returned 1 for an id that the blocks at depths 1 and 2 hold
\* and the tip block does not
C11_Witness ==
    /\ Returned("TxnStatus")
    /\ ret[MainThread].res = 1
    /\ Depths(ChainOf(DB, LastHash), arg[MainThread].txid) = {1, 2}

----------------------------------------------------------------------------
(* ChainIterator as its callers drive it *)

\* a call of bc.NewIterator(hash): the caller holds the new iterator
NewIteratorCall(t) ==
    /\ pc[t] = "call" /\ arg[t].op = "NewIterator"
    /\ iters' = [iters EXCEPT ![t] = NewIterator(arg[t].hash)]
    /\ nexts' = [nexts EXCEPT ![t] = 0]
    /\ UNCHANGED <<DB, LastHash>>
    /\ Finish(t, [op |-> "NewIterator"])

\* a call of iter.Next(); the Get of a hash that is not stored ends the
\* process (log.Fatal)
ChainIteratorNext(t) ==
    /\ pc[t] = "call" /\ arg[t].op = "Next"
    /\ UNCHANGED <<DB, LastHash>>
    /\ IF ~Exist(DB, iters[t].CurrentHash)
       THEN /\ pc' = [pc EXCEPT ![t] = "fatal"]
            /\ UNCHANGED <<arg, ret, seen, iters, nexts>>
       ELSE LET r == IterNext(DB, iters[t]) IN
            /\ iters' = [iters EXCEPT ![t] = r.iter]
            /\ nexts' = [nexts EXCEPT ![t] = @ + 1]
            /\ Finish(t, [op |-> "Next", block |-> r.block, end |-> r.end])

\* a call of iter.Reset()
ChainIteratorReset(t) ==
    /\ pc[t] = "call" /\ arg[t].op = "Reset"
    /\ iters' = [iters EXCEPT ![t] = [LastHash |-> iters[t].LastHash,
                                      CurrentHash |-> iters[t].LastHash,
                                      Index |-> -1]]
    /\ nexts' = [nexts EXCEPT ![t] = 0]
    /\ UNCHANGED <<DB, LastHash>>
    /\ Finish(t, [op |-> "Reset"])

----------------------------------------------------------------------------
(* Specification of the chain walk: one caller builds a chain with Init    *)
(* and Put and drives an iterator over it                                  *)

IterHashes == HashesUpTo(MaxIterHash)

IterBlocks == {Block(p, 1, 0, TxnsFor(h), "M1", h) : p \in IterHashes, h \in IterHashes}

IterPutCalls == {[op |-> "Put", block |-> b, owned |-> TRUE] : b \in IterBlocks}

NewIteratorCalls == {[op |-> "NewIterator", hash |-> h] : h \in IterHashes}

IterInvokeInit == Invoke(MainThread, [op |-> "Init"]) /\ UNCHANGED otherVars
IterInvokePut == (\E a \in IterPutCalls : Invoke(MainThread, a)) /\ UNCHANGED otherVars
IterInvokeNewIterator ==
    (\E a \in NewIteratorCalls : Invoke(MainThread, a)) /\ UNCHANGED otherVars
IterInvokeNext == Invoke(MainThread, [op |-> "Next"]) /\ UNCHANGED otherVars
IterInvokeReset == Invoke(MainThread, [op |-> "Reset"]) /\ UNCHANGED otherVars
IterDoInit == InitChain(MainThread) /\ UNCHANGED otherVars
IterDoPut == Put(MainThread) /\ UNCHANGED otherVars
IterDoNewIterator == NewIteratorCall(MainThread) /\ UNCHANGED <<hist, peerVars, evVars>>
IterDoNext == ChainIteratorNext(MainThread) /\ UNCHANGED <<hist, peerVars, evVars>>
IterDoReset == ChainIteratorReset(MainThread) /\ UNCHANGED <<hist, peerVars, evVars>>
IterDoReturn == Return(MainThread) /\ UNCHANGED otherVars

NextIter ==
    \/ IterInvokeInit
    \/ IterInvokePut
    \/ IterInvokeNewIterator
    \/ IterInvokeNext
    \/ IterInvokeReset
    \/ IterDoInit
    \/ IterDoPut
    \/ IterDoNewIterator
    \/ IterDoNext
    \/ IterDoReset
    \/ IterDoReturn

SpecIter == Init /\ [][NextIter]_vars

\* C17: for an iterator made by NewIterator(h) on a chain built by Init and
\* Puts, the n-th call of Next returns the (n-1)-th ancestor of h (the first
\* call h itself), leaves Index = n-1 and the cursor at the returned block's
\* PrevHash, and returns end = TRUE exactly when the returned block is
\* genesis (BlockNum = 0), which is exactly the call whose number is the
\* length of the chain from h to genesis: every block of that chain is
\* returned once, tip first.
C17_IteratorWalk ==
    [][Handled("Next") =>
          LET chain == ChainOf(DB, iters[MainThread].LastHash)
              L == Len(chain)
              n == nexts'[MainThread]
              r == ret'[MainThread]
          IN  /\ n \in 1..L
              /\ r.block = chain[L - n + 1]
              /\ iters'[MainThread].Index = n - 1
              /\ iters'[MainThread].CurrentHash = r.block.PrevHash
              /\ iters'[MainThread].LastHash = iters[MainThread].LastHash
              /\ r.end <=> r.block.BlockNum = 0
              /\ r.end <=> n = L
              /\ UNCHANGED <<DB, LastHash>>]_vars

\* the third call of Next on an iterator has returned genesis and end = TRUE
C17_Witness ==
    /\ Returned("Next")
    /\ ret[MainThread].end
    /\ nexts[MainThread] = 3
    /\ ret[MainThread].block = Genesis

----------------------------------------------------------------------------
(* Snapshot of a chain and resume of a second chain from it *)

\* Database.GetAllWithPrefix(BlockKeyPrefix): the values of the block keys
\* in key order, from hash value n on
RECURSIVE GetAllWithPrefix(_, _)
GetAllWithPrefix(db, n) ==
    IF \A k \in BlockKeys(db) : k.hash[1] < n THEN << >>
    ELSE (IF Exist(db, <<n>>) THEN <<db[DBKeyForBlock(<<n>>)]>> ELSE << >>)
         \o GetAllWithPrefix(db, n + 1)

\* mutant: the snapshot carries the tip that the "LastHash" key holds
EncodeLastFromKey(db, last) == IF KeyExist(db, LastHashKey) THEN db[LastHashKey] ELSE last

\* Encode, line 99: the tip of the snapshot is bc.LastHash
EncodeLast(db, last) == last

\* BlockChain.Encode
EncodeChain(t) ==
    /\ pc[t] = "call" /\ arg[t].op = "Encode"
    /\ UNCHANGED <<DB, LastHash>>
    /\ Finish(t, [op |-> "Encode", blocks |-> GetAllWithPrefix(DB, 0),
                  lastHash |-> EncodeLast(DB, LastHash)])

\* ResumeFromEncodedData, lines 75-80: the keys of the PutMulti
ResumeKeys(blocks) ==
    [i \in 1..Len(blocks) |-> DBKeyForBlock(DecodeToBlock(blocks[i]).Hash)]
        \o <<LastHashKey>>

\* BlockChain.ResumeFromEncodedData, called on the second chain
ResumeFromEncodedData(t) ==
    /\ pc[t] = "call" /\ arg[t].op = "ResumeFromEncodedData"
    /\ peerDB' = DBPutMulti(peerDB, ResumeKeys(arg[t].blocks),
                            Append(arg[t].blocks, arg[t].lastHash))
    /\ peerLastHash' = arg[t].lastHash
    /\ UNCHANGED <<DB, LastHash>>
    /\ Finish(t, [op |-> "ResumeFromEncodedData", err |-> "nil"])

\* the caller that holds the result of Encode passes it to
\* ResumeFromEncodedData of the second chain
Ship(t) ==
    /\ pc[t] = "done" /\ ret[t].op = "Encode"
    /\ pc' = [pc EXCEPT ![t] = "call"]
    /\ arg' = [arg EXCEPT ![t] = [op |-> "ResumeFromEncodedData",
                                 blocks |-> ret[t].blocks,
                                 lastHash |-> ret[t].lastHash]]
    /\ ret' = [ret EXCEPT ![t] = NoRet]
    /\ UNCHANGED <<DB, LastHash, seen>>

----------------------------------------------------------------------------
(* Specification of the snapshot: one caller builds a chain with Init and  *)
(* Put, encodes it and resumes a second chain from the result              *)

SnapHashes == HashesUpTo(MaxSnapHash)

SnapBlocks == {Block(p, 1, 0, TxnsFor(h), "M1", h) : p \in SnapHashes, h \in SnapHashes}

SnapPutCalls == {[op |-> "Put", block |-> b, owned |-> TRUE] : b \in SnapBlocks}

SnapInvokeInit == Invoke(MainThread, [op |-> "Init"]) /\ UNCHANGED otherVars
SnapInvokePut == (\E a \in SnapPutCalls : Invoke(MainThread, a)) /\ UNCHANGED otherVars
SnapInvokeEncode == Invoke(MainThread, [op |-> "Encode"]) /\ UNCHANGED otherVars
SnapInvokeResume == Ship(MainThread) /\ UNCHANGED otherVars
SnapDoInit == InitChain(MainThread) /\ UNCHANGED otherVars
SnapDoPut == Put(MainThread) /\ UNCHANGED otherVars
SnapDoEncode == EncodeChain(MainThread) /\ UNCHANGED otherVars
SnapDoResume == ResumeFromEncodedData(MainThread) /\ UNCHANGED <<walkVars, evVars>>
SnapDoReturn == Return(MainThread) /\ UNCHANGED otherVars

NextSnap ==
    \/ SnapInvokeInit
    \/ SnapInvokePut
    \/ SnapInvokeEncode
    \/ SnapInvokeResume
    \/ SnapDoInit
    \/ SnapDoPut
    \/ SnapDoEncode
    \/ SnapDoResume
    \/ SnapDoReturn

SpecSnap == Init /\ [][NextSnap]_vars

\* the hash -> block mapping of a store
StoredBlocks(db) == [k \in BlockKeys(db) |-> DecodeToBlock(db[k])]

\* C13: when ResumeFromEncodedData is given the result of Encode on a chain
\* built by Init and Puts and the second chain's store is empty, it succeeds
\* and leaves the second chain with the same hash -> block mapping and the
\* same LastHash as the encoded chain, so that TxnStatus of every id and
\* CheckoutFork onto every stored hash return the same on both chains.
C13_SnapshotRoundTrip ==
    [][Handled("ResumeFromEncodedData") /\ Initialized /\ peerDB = EmptyDB =>
          /\ ret'[MainThread].err = "nil"
          /\ StoredBlocks(peerDB') = StoredBlocks(DB)
          /\ peerLastHash' = LastHash
          /\ \A i \in 0..(2 * MaxSnapHash + 1) :
                TxnStatusResult(peerDB', peerLastHash', <<i>>)
                    = TxnStatusResult(DB, LastHash, <<i>>)
          /\ \A h \in SnapHashes : Exist(DB, h) =>
                CheckoutForkResult(peerDB', peerLastHash', h)
                    = CheckoutForkResult(DB, LastHash, h)
          /\ UNCHANGED <<DB, LastHash>>]_vars

\* a second chain has been resumed from the snapshot of a chain with a side
\* branch whose tip is not the genesis block
C13_Witness ==
    /\ Returned("ResumeFromEncodedData")
    /\ Cardinality(BlockKeys(peerDB)) = 3
    /\ Len(ChainOf(peerDB, peerLastHash)) = 2
    /\ peerLastHash = LastHash
    /\ StoredBlocks(peerDB) = StoredBlocks(DB)

----------------------------------------------------------------------------
(* The transaction layer: transactions with inputs and outputs, and the    *)
(* queries of BlockChain over them                                         *)

TXInput(id, out) == [ID |-> id, Out |-> out]

TXOutput(value, pkh) == [Value |-> value, PubKeyHash |-> pkh]

\* Signed: the signature of the transaction is the one its key material
\* produces over its content
Transaction(id, inputs, outputs, signed) ==
    [ID |-> id, Inputs |-> inputs, Outputs |-> outputs, Signed |-> signed]

IsLockedWithKey(out, pubKeyHash) == out.PubKeyHash = pubKeyHash

\* Transaction.Verify(prevTXs): the signature is valid and every input
\* references an output of one of prevTXs
Verify(tx, prevTXs) ==
    /\ tx.Signed
    /\ \A i \in 1..Len(tx.Inputs) :
          \E p \in prevTXs : /\ p.ID = tx.Inputs[i].ID
                             /\ tx.Inputs[i].Out < Len(p.Outputs)

\* FindTransaction, lines 263-267: the first transaction of the block with
\* this ID, as a sequence of at most one element
RECURSIVE FindInBlock(_, _, _)
FindInBlock(txns, ID, i) ==
    IF i > Len(txns) THEN << >>
    ELSE IF txns[i].ID = ID THEN <<txns[i]>>
    ELSE FindInBlock(txns, ID, i + 1)

\* FindTransaction, lines 260-273: the loop; the block with an empty
\* PrevHash is searched too and ends the walk
RECURSIVE FindTransactionWalk(_, _, _)
FindTransactionWalk(db, iter, ID) ==
    LET r == IterNext(db, iter)
        found == FindInBlock(r.block.Txns, ID, 1)
    IN  IF Len(found) > 0 THEN found
        ELSE IF Len(r.block.PrevHash) = 0 THEN << >>
        ELSE FindTransactionWalk(db, r.iter, ID)

\* BlockChain.FindTransaction: << >> stands for the error
\* "Transaction does not exist"
FindTransaction(db, last, ID) == FindTransactionWalk(db, NewIterator(last), ID)

\* SignTransaction / VerifyTransaction, the loop over tx.Inputs: some input
\* names a transaction that FindTransaction does not find
MissingPrevTX(db, last, tx) ==
    \E i \in 1..Len(tx.Inputs) : Len(FindTransaction(db, last, tx.Inputs[i].ID)) = 0

\* the map prevTXs when every input was found
PrevTXs(db, last, tx) ==
    {FindTransaction(db, last, tx.Inputs[i].ID)[1] : i \in 1..Len(tx.Inputs)}

\* FindUnspentTransactions, lines 346-358: the loop over the outputs of one
\* transaction, from index outIdx on; the transaction is appended once for
\* every output that is locked with the key and not listed in spentTXOs
RECURSIVE UnspentOfTx(_, _, _, _)
UnspentOfTx(tx, spentTXOs, pubKeyHash, outIdx) ==
    IF outIdx >= Len(tx.Outputs) THEN << >>
    ELSE (IF /\ <<tx.ID, outIdx>> \notin spentTXOs
             /\ IsLockedWithKey(tx.Outputs[outIdx + 1], pubKeyHash)
          THEN <<tx>> ELSE << >>)
         \o UnspentOfTx(tx, spentTXOs, pubKeyHash, outIdx + 1)

\* FindUnspentTransactions, lines 342-359: the loop over block.Txns
RECURSIVE UnspentOfBlock(_, _, _, _)
UnspentOfBlock(txns, spentTXOs, pubKeyHash, i) ==
    IF i > Len(txns) THEN << >>
    ELSE UnspentOfTx(txns[i], spentTXOs, pubKeyHash, 0)
         \o UnspentOfBlock(txns, spentTXOs, pubKeyHash, i + 1)

\* FindUnspentTransactions, lines 339-364: the walk; nothing in the loop
\* adds to spentTXOs, so every block is scanned with the map as it came
RECURSIVE UnspentWalk(_, _, _, _)
UnspentWalk(db, iter, spentTXOs, pubKeyHash) ==
    LET r == IterNext(db, iter) IN
    UnspentOfBlock(r.block.Txns, spentTXOs, pubKeyHash, 1)
    \o (IF Len(r.block.PrevHash) = 0 THEN << >>
        ELSE UnspentWalk(db, r.iter, spentTXOs, pubKeyHash))

\* BlockChain.FindUnspentTransactions: spentTXOs starts empty (line 335)
FindUnspentTransactionsResult(db, last, pubKeyHash) ==
    UnspentWalk(db, NewIterator(last), {}, pubKeyHash)

\* unspentOuts[txID] = append(unspentOuts[txID], outIdx)
MapAppend(m, txID, outIdx) ==
    [k \in DOMAIN m \cup {txID} |->
        IF k = txID THEN (IF txID \in DOMAIN m THEN Append(m[txID], outIdx) ELSE <<outIdx>>)
        ELSE m[k]]

\* FindSpendableOutputs, lines 318-327: the loop over the outputs of one
\* transaction; st holds accumulated, unspentOuts and whether break Work ran
RECURSIVE SpendOutputs(_, _, _, _, _)
SpendOutputs(tx, st, pubKeyHash, amount, outIdx) ==
    IF st.stop \/ outIdx >= Len(tx.Outputs) THEN st
    ELSE LET out == tx.Outputs[outIdx + 1] IN
         IF IsLockedWithKey(out, pubKeyHash) /\ st.accumulated < amount
         THEN SpendOutputs(tx,
                  [accumulated |-> st.accumulated + out.Value,
                   unspentOuts |-> MapAppend(st.unspentOuts, tx.ID, outIdx),
                   stop |-> st.accumulated + out.Value >= amount],
                  pubKeyHash, amount, outIdx + 1)
         ELSE SpendOutputs(tx, st, pubKeyHash, amount, outIdx + 1)

\* FindSpendableOutputs, lines 315-328: the loop over unspentTxs
RECURSIVE SpendTxs(_, _, _, _, _)
SpendTxs(unspentTxs, st, pubKeyHash, amount, i) ==
    IF st.stop \/ i > Len(unspentTxs) THEN st
    ELSE SpendTxs(unspentTxs, SpendOutputs(unspentTxs[i], st, pubKeyHash, amount, 0),
                  pubKeyHash, amount, i + 1)

\* BlockChain.FindSpendableOutputs
FindSpendableOutputsResult(db, last, pubKeyHash, amount) ==
    SpendTxs(FindUnspentTransactionsResult(db, last, pubKeyHash),
             [accumulated |-> 0, unspentOuts |-> [k \in {} |-> << >>], stop |-> FALSE],
             pubKeyHash, amount, 1)

\* a call that walks the chain on a BlockChain whose LastHash is not
\* stored: Get ends the process (log.Fatal)
WalkFatal(t) ==
    /\ pc' = [pc EXCEPT ![t] = "fatal"]
    /\ UNCHANGED <<arg, ret, seen>>

\* BlockChain.FindUnspentTransactions
FindUnspentTransactions(t) ==
    /\ pc[t] = "call" /\ arg[t].op = "FindUnspentTransactions"
    /\ UNCHANGED <<DB, LastHash>>
    /\ IF ~Exist(DB, LastHash) THEN WalkFatal(t)
       ELSE Finish(t, [op |-> "FindUnspentTransactions",
                       txs |-> FindUnspentTransactionsResult(DB, LastHash,
                                                             arg[t].pubKeyHash)])

\* BlockChain.FindSpendableOutputs
FindSpendableOutputs(t) ==
    /\ pc[t] = "call" /\ arg[t].op = "FindSpendableOutputs"
    /\ UNCHANGED <<DB, LastHash>>
    /\ IF ~Exist(DB, LastHash) THEN WalkFatal(t)
       ELSE LET st == FindSpendableOutputsResult(DB, LastHash, arg[t].pubKeyHash,
                                                 arg[t].amount)
            IN  Finish(t, [op |-> "FindSpendableOutputs",
                           accumulated |-> st.accumulated,
                           unspentOuts |-> st.unspentOuts])

\* log.Panic(err) at lines 284 and 299
MissingPrevTXPanics(t) ==
    /\ pc' = [pc EXCEPT ![t] = "panic"]
    /\ UNCHANGED <<arg, ret, seen>>

\* BlockChain.VerifyTransaction
VerifyTransaction(t) ==
    /\ pc[t] = "call" /\ arg[t].op = "VerifyTransaction"
    /\ UNCHANGED <<DB, LastHash>>
    /\ IF Len(arg[t].tx.Inputs) > 0 /\ ~Exist(DB, LastHash) THEN WalkFatal(t)
       ELSE IF MissingPrevTX(DB, LastHash, arg[t].tx) THEN MissingPrevTXPanics(t)
       ELSE Finish(t, [op |-> "VerifyTransaction",
                       ok |-> Verify(arg[t].tx, PrevTXs(DB, LastHash, arg[t].tx))])

\* BlockChain.SignTransaction
SignTransaction(t) ==
    /\ pc[t] = "call" /\ arg[t].op = "SignTransaction"
    /\ UNCHANGED <<DB, LastHash>>
    /\ IF Len(arg[t].tx.Inputs) > 0 /\ ~Exist(DB, LastHash) THEN WalkFatal(t)
       ELSE IF MissingPrevTX(DB, LastHash, arg[t].tx) THEN MissingPrevTXPanics(t)
       ELSE Finish(t, [op |-> "SignTransaction",
                       tx |-> [arg[t].tx EXCEPT !.Signed = TRUE]])

----------------------------------------------------------------------------
(* Specification of the transaction layer: one caller builds a chain of    *)
(* blocks that carry transactions with inputs and outputs and queries it   *)

TxnHashes == HashesUpTo(MaxTxnHash)

\* two key hashes
PubKeyHashes == {<<1>>, <<2>>}

\* Ta pays key 1 with two outputs; Tb spends the first of them and pays key
\* 2; Tc spends the second and pays key 1; the input of Td names a
\* transaction that no block holds
Ta == Transaction(<<1>>, << >>, <<TXOutput(1, <<1>>), TXOutput(2, <<1>>)>>, TRUE)
Tb == Transaction(<<2>>, <<TXInput(<<1>>, 0)>>, <<TXOutput(1, <<2>>)>>, TRUE)
Tc == Transaction(<<3>>, <<TXInput(<<1>>, 1)>>, <<TXOutput(2, <<1>>)>>, TRUE)
Td == Transaction(<<4>>, <<TXInput(<<9>>, 0)>>, <<TXOutput(1, <<2>>)>>, TRUE)

\* the transaction lists a block may carry
BlockTxns == {<<Ta>>, <<Tb>>, <<Tc>>, <<Tb, Tc>>}

TxnBlocks ==
    {Block(p, 1, 0, txns, "M1", h) : p \in TxnHashes, h \in TxnHashes, txns \in BlockTxns}

TxnPutCalls == {[op |-> "Put", block |-> b, owned |-> TRUE] : b \in TxnBlocks}

\* the transactions handed to VerifyTransaction and SignTransaction, with
\* and without a valid signature
CallerTxns == {[tx EXCEPT !.Signed = s] : tx \in {Ta, Tb, Tc, Td}, s \in BOOLEAN}

Amounts == 0..7

TxnInvokeInit == Invoke(MainThread, [op |-> "Init"]) /\ UNCHANGED otherVars
TxnInvokePut == (\E a \in TxnPutCalls : Invoke(MainThread, a)) /\ UNCHANGED otherVars
TxnInvokeFindUnspent ==
    /\ \E k \in PubKeyHashes :
          Invoke(MainThread, [op |-> "FindUnspentTransactions", pubKeyHash |-> k])
    /\ UNCHANGED otherVars
TxnInvokeFindSpendable ==
    /\ \E k \in PubKeyHashes, n \in Amounts :
          Invoke(MainThread, [op |-> "FindSpendableOutputs", pubKeyHash |-> k,
                              amount |-> n])
    /\ UNCHANGED otherVars
TxnInvokeVerify ==
    /\ \E tx \in CallerTxns : Invoke(MainThread, [op |-> "VerifyTransaction", tx |-> tx])
    /\ UNCHANGED otherVars
TxnInvokeSign ==
    /\ \E tx \in CallerTxns : Invoke(MainThread, [op |-> "SignTransaction", tx |-> tx])
    /\ UNCHANGED otherVars
TxnDoInit == InitChain(MainThread) /\ UNCHANGED otherVars
TxnDoPut == Put(MainThread) /\ UNCHANGED otherVars
TxnDoFindUnspent == FindUnspentTransactions(MainThread) /\ UNCHANGED otherVars
TxnDoFindSpendable == FindSpendableOutputs(MainThread) /\ UNCHANGED otherVars
TxnDoVerify == VerifyTransaction(MainThread) /\ UNCHANGED otherVars
TxnDoSign == SignTransaction(MainThread) /\ UNCHANGED otherVars
TxnDoReturn == Return(MainThread) /\ UNCHANGED otherVars

NextTxn ==
    \/ TxnInvokeInit
    \/ TxnInvokePut
    \/ TxnInvokeFindUnspent
    \/ TxnInvokeFindSpendable
    \/ TxnInvokeVerify
    \/ TxnInvokeSign
    \/ TxnDoInit
    \/ TxnDoPut
    \/ TxnDoFindUnspent
    \/ TxnDoFindSpendable
    \/ TxnDoVerify
    \/ TxnDoSign
    \/ TxnDoReturn

SpecTxn == Init /\ [][NextTxn]_vars

\* the places <<i, j, o>> of the outputs of the chain: output index o of the
\* j-th transaction of the i-th block
OutputPlaces(chain) ==
    {<<i, j, o>> \in (1..Len(chain)) \X (1..2) \X (0..1) :
        j <= Len(chain[i].Txns) /\ o < Len(chain[i].Txns[j].Outputs)}

\* the output at place pl is referenced by an input of a transaction of the
\* blocks chain[from..]
Referenced(chain, pl, from) ==
    \E i \in from..Len(chain) : \E j \in 1..Len(chain[i].Txns) :
        \E n \in 1..Len(chain[i].Txns[j].Inputs) :
            chain[i].Txns[j].Inputs[n] = TXInput(chain[pl[1]].Txns[pl[2]].ID, pl[3])

\* the outputs locked with pkh that no input of a block nearer the tip
\* references
UnspentPlaces(chain, pkh) ==
    {pl \in OutputPlaces(chain) :
        /\ IsLockedWithKey(chain[pl[1]].Txns[pl[2]].Outputs[pl[3] + 1], pkh)
        /\ ~Referenced(chain, pl, pl[1] + 1)}

\* a step of the main thread that ends a pending call of op, in any way
Ended(op) ==
    /\ pc[MainThread] = "call" /\ arg[MainThread].op = op
    /\ pc'[MainThread] # "call"

\* C14: every transaction that FindUnspentTransactions(pkh) returns has at
\* least one output locked to pkh that no input of a block nearer the tip
\* references: a transaction all of whose pkh-locked outputs are spent
\* nearer the tip is not returned.
C14_SpentNotReturned ==
    [][Handled("FindUnspentTransactions") =>
          LET chain == ChainOf(DB, LastHash)
              pkh == arg[MainThread].pubKeyHash
              txs == ret'[MainThread].txs
          IN  \A n \in 1..Len(txs) :
                 \E pl \in UnspentPlaces(chain, pkh) : chain[pl[1]].Txns[pl[2]] = txs[n]]_vars

\* the sum of the values of the outputs at the places
RECURSIVE SumValues(_, _)
SumValues(chain, places) ==
    IF places = {} THEN 0
    ELSE LET pl == CHOOSE x \in places : TRUE IN
         chain[pl[1]].Txns[pl[2]].Outputs[pl[3] + 1].Value
             + SumValues(chain, places \ {pl})

\* C15: when the total value of the unspent outputs locked to pkh on the
\* current chain is below amount, FindSpendableOutputs(pkh, amount) returns
\* that total.
C15_TotalWhenShort ==
    [][Handled("FindSpendableOutputs") =>
          LET chain == ChainOf(DB, LastHash)
              total == SumValues(chain, UnspentPlaces(chain, arg[MainThread].pubKeyHash))
          IN  total < arg[MainThread].amount => ret'[MainThread].accumulated = total]_vars

\* some input of tx names a transaction that no block of the chain holds
UnknownInput(chain, tx) ==
    \E n \in 1..Len(tx.Inputs) :
        \A i \in 1..Len(chain) : \A j \in 1..Len(chain[i].Txns) :
            chain[i].Txns[j].ID # tx.Inputs[n].ID

\* C16: VerifyTransaction(tx) with an input that references a transaction
\* in no block of the current chain returns false to its caller.
C16_VerifyReturnsFalse ==
    [][/\ Ended("VerifyTransaction")
       /\ Initialized
       /\ UnknownInput(ChainOf(DB, LastHash), arg[MainThread].tx)
       => /\ pc'[MainThread] = "done"
          /\ ret'[MainThread].ok = FALSE]_vars

----------------------------------------------------------------------------
(* BlockChain.TxnStatus statement by statement, as it runs beside          *)
(* concurrent callers of Put: TxnStatus takes no lock either               *)

\* line 218: the read of bc.LastHash for NewIterator
TxnStatusStart(t) ==
    /\ pc[t] = "call" /\ arg[t].op = "TxnStatus"
    /\ iters' = [iters EXCEPT ![t] = NewIterator(LastHash)]
    /\ pc' = [pc EXCEPT ![t] = "line220"]
    /\ UNCHANGED <<DB, LastHash, arg, ret, seen>>

\* lines 220-231: one iter.Next() (one Get) and the search of the block it
\* returned
TxnStatusNext(t) ==
    /\ pc[t] = "line220"
    /\ UNCHANGED <<DB, LastHash>>
    /\ IF ~Exist(DB, iters[t].CurrentHash)
       THEN /\ pc' = [pc EXCEPT ![t] = "fatal"]
            /\ UNCHANGED <<arg, ret, seen, iters>>
       ELSE LET r == IterNext(DB, iters[t]) IN
            /\ iters' = [iters EXCEPT ![t] = r.iter]
            /\ IF r.end
               THEN Finish(t, [op |-> "TxnStatus", res |-> -1])
               ELSE IF Contains(r.block, arg[t].txid)
               THEN Finish(t, [op |-> "TxnStatus", res |-> TxnStatusIndex(r.iter)])
               ELSE UNCHANGED <<pc, arg, ret, seen>>

----------------------------------------------------------------------------
(* Specification of a query that races with Puts: the first caller builds  *)
(* a chain of three blocks and queries it while the other callers put      *)
(* blocks that carry the hashes of two of them                             *)

RaceC == Block(Genesis.Hash, 1, 0, TxnsFor(<<2>>), "M1", <<2>>)
RaceA == Block(<<2>>, 1, 0, TxnsFor(<<3>>), "M1", <<3>>)
RaceX == Block(<<3>>, 1, 0, TxnsFor(<<4>>), "M1", <<4>>)
\* blocks of other miners under the hashes of RaceA and RaceX
RaceA2 == Block(Genesis.Hash, 1, 0, TxnsFor(<<3>>), "M2", <<3>>)
RaceX2 == Block(<<2>>, 1, 0, TxnsFor(<<4>>), "M2", <<4>>)

\* the blocks each caller puts
RaceBlocks(t) == IF t = MainThread THEN {RaceC, RaceA, RaceX} ELSE {RaceA2, RaceX2}

RaceTxnStatusCalls == {[op |-> "TxnStatus", txid |-> TxnsFor(h)[1].ID] : h \in {<<2>>, <<3>>}}

\* what a TxnStatus in progress could have seen: the tip and the store
\* after every step taken since it was called
Observe(t) ==
    hist' = [hist EXCEPT ![t] =
                IF arg'[t].op = "TxnStatus"
                THEN hist[t] \cup {[tip |-> LastHash', db |-> DB']}
                ELSE {}]

RaceFrame == Observe(MainThread) /\ UNCHANGED <<nexts, peerVars, evVars>>

RaceInvokeInit ==
    Invoke(MainThread, [op |-> "Init"]) /\ UNCHANGED iters /\ RaceFrame
RaceInvokePut ==
    /\ \E t \in RaceThreads : \E b \in RaceBlocks(t) :
          Invoke(t, [op |-> "Put", block |-> b, owned |-> TRUE])
    /\ UNCHANGED iters /\ RaceFrame
RaceInvokeTxnStatus ==
    (\E a \in RaceTxnStatusCalls : Invoke(MainThread, a)) /\ UNCHANGED iters /\ RaceFrame
RaceDoInit == InitChain(MainThread) /\ UNCHANGED iters /\ RaceFrame
RacePutCheckParent == (\E t \in RaceThreads : PutCheckParent(t)) /\ UNCHANGED iters /\ RaceFrame
RacePutCheckBlock == (\E t \in RaceThreads : PutCheckBlock(t)) /\ UNCHANGED iters /\ RaceFrame
RacePutWrite == (\E t \in RaceThreads : PutWrite(t)) /\ UNCHANGED iters /\ RaceFrame
RacePutReadLast == (\E t \in RaceThreads : PutReadLast(t)) /\ UNCHANGED iters /\ RaceFrame
RacePutWriteLast == (\E t \in RaceThreads : PutWriteLast(t)) /\ UNCHANGED iters /\ RaceFrame
RaceTxnStatusStart == TxnStatusStart(MainThread) /\ RaceFrame
RaceTxnStatusNext == TxnStatusNext(MainThread) /\ RaceFrame
RaceDoReturn == (\E t \in RaceThreads : Return(t)) /\ UNCHANGED iters /\ RaceFrame

NextRace ==
    \/ RaceInvokeInit
    \/ RaceInvokePut
    \/ RaceInvokeTxnStatus
    \/ RaceDoInit
    \/ RacePutCheckParent
    \/ RacePutCheckBlock
    \/ RacePutWrite
    \/ RacePutReadLast
    \/ RacePutWriteLast
    \/ RaceTxnStatusStart
    \/ RaceTxnStatusNext
    \/ RaceDoReturn

SpecRace == Init /\ [][NextRace]_vars

\* the values a TxnStatus(txid) run alone returns on the chain that ends at
\* a tip seen in obs, in a store seen in obs
AloneResults(obs, txid) ==
    {TxnStatusResult(o.db, p.tip, txid) :
        <<o, p>> \in {<<o, p>> \in obs \X obs : Exist(o.db, p.tip)}}

\* C19: the value returned by a TxnStatus(id) that runs beside Put calls is
\* a value that TxnStatus(id) run alone returns on the chain ending at a tip
\* that bc.LastHash held between the call and its return.
C19_ConsistentWalk ==
    [][pc[MainThread] = "line220" /\ pc'[MainThread] = "done" =>
          ret'[MainThread].res \in AloneResults(hist'[MainThread], arg[MainThread].txid)]_vars

----------------------------------------------------------------------------
(* evlib: the voter-side client EV.  evpc.api is the position of the       *)
(* goroutine that calls the API, evpc.bg the position of the goroutine     *)
(* that Start launches, evpc.call the arguments of the Vote in progress.   *)
(* The coordinator and the miners are the environment: a connection or a   *)
(* remote call succeeds or fails.                                          *)

Miners == {"m1", "m2"}

\* the replies of CoordAPIClient.GetMinerList
MinerLists == {<<a>> : a \in Miners} \cup {<<a, b>> : <<a, b>> \in {p \in Miners \X Miners : p[1] # p[2]}}

\* rand.Intn(n) for n > 0
RandIntn(n) == 0..(n - 1)

\* EV.Start up to its return: voterInfo and VoterTxnMap are reset, the
\* coordinator is connected, quit is made and the goroutine is launched
EVStart ==
    /\ evpc.api = "new"
    /\ voterInfo' = << >>
    /\ ev' = [ev EXCEPT !.coordClient = TRUE, !.VoterTxnMap = {}]
    /\ evpc' = [evpc EXCEPT !.api = "idle", !.bg = "fetch"]
    /\ UNCHANGED created

\* the goroutine, lines 137-145: GetMinerList fails or returns no miner;
\* the goroutine sleeps and retries
MinerListFails ==
    /\ evpc.bg = "fetch"
    /\ UNCHANGED evVars

\* the goroutine, lines 137-153: GetMinerList returns a list; one miner of
\* it is picked
MinerListArrives ==
    /\ evpc.bg = "fetch"
    /\ \E list \in MinerLists :
          \E index \in (IF Len(list) > 1 THEN RandIntn(Len(list) - 1) ELSE {0}) :
              ev' = [ev EXCEPT !.MinerAddrList = list, !.minerIpPort = list[index + 1]]
    /\ evpc' = [evpc EXCEPT !.bg = "select"]
    /\ UNCHANGED <<voterInfo, created>>

\* the goroutine, lines 154-160: nothing is sending on quit, the select
\* takes its default and the outer loop goes round
SelectDefault ==
    /\ evpc.bg = "select"
    /\ evpc.api # "StopSend"
    /\ evpc' = [evpc EXCEPT !.bg = "fetch"]
    /\ UNCHANGED <<ev, voterInfo, created>>

\* the goroutine receives what Stop sends on the unbuffered quit: the
\* goroutine returns and Stop goes on to line 364
SelectQuit ==
    /\ evpc.bg = "select"
    /\ evpc.api = "StopSend"
    /\ evpc' = [evpc EXCEPT !.bg = "ended", !.api = "StopClose"]
    /\ UNCHANGED <<ev, voterInfo, created>>

\* EV.Stop is called: line 363, quit <- true, blocks until it is received
StopSend ==
    /\ evpc.api = "idle"
    /\ evpc' = [evpc EXCEPT !.api = "StopSend"]
    /\ UNCHANGED <<ev, voterInfo, created>>

\* EV.Stop, lines 364-366: Close of a nil minerClient is a nil-pointer
\* dereference
StopClose ==
    /\ evpc.api = "StopClose"
    /\ evpc' = [evpc EXCEPT !.api = IF ev.minerClient THEN "stopped" ELSE "panic"]
    /\ UNCHANGED <<ev, voterInfo, created>>

\* findVoterExist
findVoterExist(info, from, to) ==
    \E i \in 1..Len(info) : info[i].Name = from /\ info[i].ID = to

\* sliceMinerList: the list without the first occurrence of mAddr
RECURSIVE sliceMinerList(_, _)
sliceMinerList(mAddr, minerList) ==
    IF Len(minerList) = 0 THEN minerList
    ELSE IF Head(minerList) = mAddr THEN Tail(minerList)
    ELSE <<Head(minerList)>> \o sliceMinerList(mAddr, Tail(minerList))

Voters == {"v1", "v2"}
StudentIDs == {"id1"}
Candidates == {"c1", "c2"}

VoteCalls == {[op |-> "Vote", from |-> n, fromID |-> i, to |-> c] :
                 n \in Voters, i \in StudentIDs, c \in Candidates}

\* EV.Vote, lines 198-213: the wallet of the voter is created when
\* findVoterExist does not find (from, fromID); the entry appended to
\* voterInfo holds the candidate as its ID (line 208)
VoteBegin ==
    /\ evpc.api = "idle"
    /\ Len(created) < MaxVotes
    /\ \E a \in VoteCalls :
          /\ evpc' = [evpc EXCEPT !.api = "VoteSubmit", !.call = a]
          /\ IF ~findVoterExist(voterInfo, a.from, a.fromID)
             THEN /\ created' = Append(created, [Name |-> a.from, ID |-> a.fromID])
                  /\ voterInfo' = Append(voterInfo, [Name |-> a.from, ID |-> a.to])
             ELSE UNCHANGED <<created, voterInfo>>
    /\ UNCHANGED ev

\* EV.Vote, lines 218-222: connectMiner and SubmitTxn succeed; Vote returns
VoteSubmitted ==
    /\ evpc.api = "VoteSubmit"
    /\ ev.minerIpPort # ""
    /\ ev' = [ev EXCEPT !.minerClient = TRUE, !.VoterTxnMap = @ \cup {evpc.call.from}]
    /\ evpc' = [evpc EXCEPT !.api = "idle", !.call = NoArg]
    /\ UNCHANGED <<voterInfo, created>>

\* EV.Vote, lines 218-228 and 246: connectMiner or SubmitTxn fails (the
\* error of connectMiner is overwritten); the Call on a nil minerClient is a
\* nil-pointer dereference; otherwise the miner is cut from the list and
\* another is picked, rand.Intn(0) panicking when one miner is left
VoteSubmitFails ==
    /\ evpc.api = "VoteSubmit"
    /\ \E connected \in BOOLEAN :
          LET client == ev.minerClient \/ (connected /\ ev.minerIpPort # "")
              list == sliceMinerList(ev.minerIpPort, ev.MinerAddrList)
          IN  IF ~client
              THEN /\ evpc' = [evpc EXCEPT !.api = "panic"]
                   /\ UNCHANGED ev
              ELSE IF Len(list) = 0
              THEN /\ evpc' = [evpc EXCEPT !.api = "VoteRefetch"]
                   /\ ev' = [ev EXCEPT !.minerClient = client, !.MinerAddrList = list]
              ELSE IF Len(list) = 1
              THEN /\ evpc' = [evpc EXCEPT !.api = "panic"]
                   /\ ev' = [ev EXCEPT !.minerClient = client, !.MinerAddrList = list]
              ELSE /\ UNCHANGED evpc
                   /\ \E index \in RandIntn(Len(list) - 1) :
                         ev' = [ev EXCEPT !.minerClient = client, !.MinerAddrList = list,
                                          !.minerIpPort = list[index + 1]]
    /\ UNCHANGED <<voterInfo, created>>

\* EV.Vote, lines 230-243: one round of the loop that asks the coordinator
\* again; it is left only when d.MinerAddrList, which the goroutine of
\* Start writes, is not empty and the reply is not empty
VoteRefetch ==
    /\ evpc.api = "VoteRefetch"
    /\ \E reply \in MinerLists \cup {<< >>} :
          IF Len(reply) > 0 /\ Len(ev.MinerAddrList) > 0
          THEN /\ ev' = [ev EXCEPT !.MinerAddrList = reply]
               /\ evpc' = [evpc EXCEPT !.api = "VoteSubmit"]
          ELSE UNCHANGED <<ev, evpc>>
    /\ UNCHANGED <<voterInfo, created>>

----------------------------------------------------------------------------
(* Specification of the client: one goroutine calls Start, then Vote and   *)
(* Stop, beside the goroutine of Start                                     *)

EVFrame == UNCHANGED <<chainVars, walkVars, peerVars>>

EVDoStart == EVStart /\ EVFrame
EVMinerListFails == MinerListFails /\ EVFrame
EVMinerListArrives == MinerListArrives /\ EVFrame
EVSelectDefault == SelectDefault /\ EVFrame
EVSelectQuit == SelectQuit /\ EVFrame
EVVoteBegin == VoteBegin /\ EVFrame
EVVoteSubmitted == VoteSubmitted /\ EVFrame
EVVoteSubmitFails == VoteSubmitFails /\ EVFrame
EVVoteRefetch == VoteRefetch /\ EVFrame
EVStopSend == StopSend /\ EVFrame
EVStopClose == StopClose /\ EVFrame

NextEV ==
    \/ EVDoStart
    \/ EVMinerListFails
    \/ EVMinerListArrives
    \/ EVSelectDefault
    \/ EVSelectQuit
    \/ EVVoteBegin
    \/ EVVoteSubmitted
    \/ EVVoteSubmitFails
    \/ EVVoteRefetch
    \/ EVStopSend
    \/ EVStopClose

SpecEV == Init /\ [][NextEV]_vars

\* C18: a Stop called after Start has returned does not panic: the step of
\* Stop that closes the clients ends with Stop returned, whether or not Vote
\* was ever called.
C18_StopDoesNotPanic ==
    [][evpc.api = "StopClose" => evpc'.api = "stopped"]_vars

\* C20: createVoterWallet runs at most once for a voter (name, student id),
\* whatever candidates the Vote calls of that voter name.
C20_WalletCreatedOnce ==
    \A i, j \in 1..Len(created) : i # j => created[i] # created[j]

\* the miner list without the miner mAddr
Remaining(minerList, mAddr) == SelectSeq(minerList, LAMBDA m : m # mAddr)

\* C21: when SubmitTxn to the selected miner fails and miners remain in the
\* list once that miner is removed, also when exactly one remains, Vote
\* does not abort: it keeps the remaining list and retries with a miner of
\* that list. (A step that leaves the goroutine of Start where it is and
\* does not return from Vote is the failed attempt of Vote.)
C21_VoteFailsOver ==
    [][/\ evpc.api = "VoteSubmit"
       /\ ev.minerClient
       /\ evpc'.bg = evpc.bg
       /\ evpc'.api # "idle"
       /\ Len(Remaining(ev.MinerAddrList, ev.minerIpPort)) > 0
       => /\ evpc'.api = "VoteSubmit"
          /\ ev'.MinerAddrList = Remaining(ev.MinerAddrList, ev.minerIpPort)
          /\ \E i \in 1..Len(ev'.MinerAddrList) : ev'.minerIpPort = ev'.MinerAddrList[i]]_vars

\* every transaction ID is carried at one place of the chain only
DistinctIDs(chain) ==
    \A i, k \in 1..Len(chain) :
        \A j \in 1..Len(chain[i].Txns) : \A l \in 1..Len(chain[k].Txns) :
            chain[i].Txns[j].ID = chain[k].Txns[l].ID => i = k /\ j = l

\* the outputs of the chain locked with pkh, spent or not
LockedPlaces(chain, pkh) ==
    {pl \in OutputPlaces(chain) :
        IsLockedWithKey(chain[pl[1]].Txns[pl[2]].Outputs[pl[3] + 1], pkh)}

\* C22: on a chain that carries every transaction once,
\* FindUnspentTransactions(pkh) returns no transaction twice, and
\* FindSpendableOutputs(pkh, amount) lists no output index twice under a
\* transaction and accumulates no more than the total value of the outputs
\* of the chain locked to pkh.
C22_NoOutputTwice ==
    [][/\ Handled("FindUnspentTransactions") /\ DistinctIDs(ChainOf(DB, LastHash)) =>
              LET txs == ret'[MainThread].txs IN
              \A i, j \in 1..Len(txs) : i # j => txs[i] # txs[j]
       /\ Handled("FindSpendableOutputs") /\ DistinctIDs(ChainOf(DB, LastHash)) =>
              LET chain == ChainOf(DB, LastHash)
                  outs == ret'[MainThread].unspentOuts
              IN  /\ \A id \in DOMAIN outs :
                        \A i, j \in 1..Len(outs[id]) : i # j => outs[id][i] # outs[id][j]
                  /\ ret'[MainThread].accumulated
                        <= SumValues(chain, LockedPlaces(chain, arg[MainThread].pubKeyHash))]_vars

====
